---- MODULE Spec2Model ----
(***************************************************************************)
(* Model of backend/main.py: the SSE chat streams                          *)
(* (claude_chat_stream.generate and rick_chat_stream.generate, with the    *)
(* agent subprocess they spawn and read), the session registries of the    *)
(* two agents, and the name-session handlers.                              *)
(*                                                                         *)
(* Text is a sequence of characters; the characters of the model are       *)
(* tokens (a blank, a byte that is not UTF-8, a word, a JSON document).    *)
(* Python's None is Null, a missing dictionary key is NoKey.               *)
(***************************************************************************)
EXTENDS Integers, Sequences, FiniteSets, TLC

\* Largest number of lines the subprocess writes to stdout in one invocation.
MaxLines == 2

Null == "null"
\* process.returncode while the subprocess has not exited (None).
NoReturnCode == -1
NoKey == "<absent>"
Blank == " "
BadByte == "\\xff"

Agents == {"claude", "rick"}

\* request.session_id of ClaudeCodeRequest: None or a resume id.
ReqSessionIds == {Null, "H"}

\* request.message of ClaudeCodeRequest: any str, the empty one included.
Messages == {"", "hello"}

\* ---------------------------------------------------------------------
\* The stream-json documents the subprocess may write, as json.loads
\* returns them.  kind is the Python type of the decoded value.
\* ---------------------------------------------------------------------
Block(t, text, name) == [type |-> t, text |-> text, name |-> name]

Doc(t, sid, shape, content, text) ==
  [kind |-> "object", type |-> t, session_id |-> sid, shape |-> shape,
   content |-> content, text |-> text]

NotAnObject == [kind |-> "scalar", type |-> NoKey, session_id |-> NoKey,
                shape |-> "ok", content |-> <<>>, text |-> <<>>]

JSONDecodeError == [kind |-> "invalid", type |-> NoKey, session_id |-> NoKey,
                    shape |-> "ok", content |-> <<>>, text |-> <<>>]

JsonDocs ==
     ("42" :> NotAnObject)
  @@ ("A1" :> Doc("assistant", "S1", "ok",
                  <<Block("text", <<"hello-reply">>, "")>>, <<>>))
  @@ ("A2" :> Doc("assistant", NoKey, "ok",
                  <<Block("tool_use", <<>>, "Bash"),
                    Block("thinking", <<>>, ""),
                    Block("text", <<"more">>, "")>>, <<>>))
  @@ ("A3" :> Doc("assistant", "S2", "bad", <<>>, <<>>))
  @@ ("R0" :> Doc("result", NoKey, "ok", <<>>, <<"final">>))
  @@ ("R2" :> Doc("result", "S2", "ok", <<>>, <<"final">>))
  @@ ("E1" :> Doc("error", NoKey, "ok", <<>>, <<"overloaded">>))
  @@ ("Y1" :> Doc("system", "S2", "ok", <<>>, <<"Thinking">>))
  @@ ("Y0" :> Doc("system", NoKey, "ok", <<>>, <<>>))
  @@ ("U1" :> Doc("user", "S1", "ok", <<>>, <<>>))
  @@ ("N1" :> Doc(NoKey, NoKey, "ok", <<>>, <<>>))

\* The lines the subprocess may write (without the line terminator).
Lines ==
  {<<Blank>>, <<"oops">>, <<Blank, "oops">>, <<BadByte>>}
  \cup {<<d>> : d \in DOMAIN JsonDocs}

\* ---------------------------------------------------------------------
\* Pure helpers of generate()
\* ---------------------------------------------------------------------
\* bytes.decode('utf-8') raises UnicodeDecodeError on a byte that is not UTF-8.
ValidUtf8(line) == \A i \in 1..Len(line) : line[i] # BadByte

RECURSIVE lstrip(_)
lstrip(s) == IF s # <<>> /\ Head(s) = Blank THEN lstrip(Tail(s)) ELSE s

RECURSIVE rstrip(_)
rstrip(s) ==
  IF s # <<>> /\ s[Len(s)] = Blank THEN rstrip(SubSeq(s, 1, Len(s) - 1)) ELSE s

\* str.strip()
strip(s) == rstrip(lstrip(s))

\* json.loads(line_text)
json_loads(line_text) ==
  IF Len(line_text) = 1 /\ line_text[1] \in DOMAIN JsonDocs
  THEN JsonDocs[line_text[1]]
  ELSE JSONDecodeError

\* Python truthiness of a session id: None and "" are false.
Falsy(s) == s \in {Null, ""}

\* The JSON object of one SSE frame.
Frame(t, sid, text, tool) ==
  [type |-> t, session_id |-> sid, text |-> text, tool |-> tool]

InitText(a) ==
  IF a = "claude" THEN <<"Starting Claude Code...">> ELSE <<"Starting Rick...">>

\* Handlers whose first frames differ in more than their text.
InitFrameOfAnotherType(a) ==
  Frame(IF a = "rick" THEN "started" ELSE "init", NoKey, InitText(a), "")

InitFrame(a) == Frame("init", NoKey, InitText(a), "")

MessageFrame(text, sid) == Frame("message", sid, text, "")

ToolUseFrame(name, sid) == Frame("tool_use", sid, <<>>, name)

ResultFrame(event, sid) ==
  Frame("result",
        IF event.session_id # NoKey THEN event.session_id ELSE sid,
        event.text, "")

ErrorFrame(text, sid) == Frame("error", sid, text, "")

SystemFrame(text, sid) == Frame("system", sid, text, "")

ForwardedFrame(event, sid) == Frame(event.type, sid, event.text, "")

DoneFrame(sid) == Frame("done", sid, <<>>, "")

CancelledFrame(sid) == Frame("cancelled", sid, <<>>, "")

\* The frames of the content blocks of an assistant event, in block order.
RECURSIVE BlockFrames(_, _)
BlockFrames(content, sid) ==
  IF content = <<>> THEN <<>>
  ELSE LET block == Head(content)
           rest == BlockFrames(Tail(content), sid)
       IN  IF block.type = "text" THEN <<MessageFrame(block.text, sid)>> \o rest
           ELSE IF block.type = "tool_use"
                THEN <<ToolUseFrame(block.name, sid)>> \o rest
                ELSE rest

\* A handler that never takes the session id of an event.
KeepRequestSessionId(event, sid) == sid

\* The new running session id after an event.
ExtractSessionId(event, sid) ==
  IF event.session_id # NoKey /\ Falsy(sid) THEN event.session_id ELSE sid

Outcome(fs, sid, raised) == [frames |-> fs, session_id |-> sid, raised |-> raised]

\* A non-JSON line that is discarded instead of forwarded.
RawTextDropped(line_text, sid) == <<>>

\* The frames of a non-JSON line.
RawTextFrames(line_text, sid) == <<MessageFrame(line_text, sid)>>

\* The body of the try block for one decoded event.
HandleEvent(event, sid0) ==
  IF event.kind = "scalar" THEN Outcome(<<>>, sid0, "AttributeError")
  ELSE
    LET event_type == IF event.type = NoKey THEN "unknown" ELSE event.type
        sid == ExtractSessionId(event, sid0)
    IN  CASE event_type = "assistant" ->
               IF event.shape = "bad" THEN Outcome(<<>>, sid, "AttributeError")
               ELSE Outcome(BlockFrames(event.content, sid), sid, "none")
          [] event_type = "result" ->
               Outcome(<<ResultFrame(event, sid)>>, sid, "none")
          [] event_type = "error" ->
               Outcome(<<ErrorFrame(event.text, sid)>>, sid, "none")
          [] event_type = "system" ->
               IF event.text # <<>>
               THEN Outcome(<<SystemFrame(event.text, sid)>>, sid, "none")
               ELSE Outcome(<<>>, sid, "none")
          [] OTHER ->
               Outcome(<<ForwardedFrame(event, sid)>>, sid, "none")

\* One iteration of the read loop on a line that is not EOF.
HandleLine(line, sid) ==
  IF ~ValidUtf8(line) THEN Outcome(<<>>, sid, "UnicodeDecodeError")
  ELSE
    LET line_text == strip(line) IN
    IF line_text = <<>> THEN Outcome(<<>>, sid, "none")
    ELSE LET event == json_loads(line_text) IN
         IF event.kind = "invalid"
         THEN Outcome(RawTextFrames(line_text, sid), sid, "none")
         ELSE HandleEvent(event, sid)

\* ---------------------------------------------------------------------
\* State
\* ---------------------------------------------------------------------
VARIABLES
  agent,        \* which endpoint serves the request
  request,      \* the ClaudeCodeRequest
  pc,           \* where generate() is suspended
  session_id,   \* local session_id of generate()
  frames,       \* the frames generate() has yielded, in order
  exit,         \* how generate() ended
  process,      \* the subprocess: none, failed, running, exited
  stdout,       \* the lines the subprocess has written to stdout
  eof,          \* the subprocess has closed its stdout
  nread,        \* number of lines readline() has returned
  returncode,   \* process.returncode
  stderr_data,  \* what the subprocess wrote to stderr
  files,        \* the session registry file of each agent
  clock,        \* datetime.now(), one tick per registry request
  log,          \* the registry requests served so far, with their status
  response,     \* the body of the last registry response
  name_request, \* the SessionNameRequest
  name_pc,      \* where the name-session handler is suspended
  name_process, \* the naming subprocess: none, failed, running, exited
  name_response \* what the name-session handler returned

streamVars == <<agent, request, pc, session_id, frames, exit, process, stdout,
                eof, nread, returncode, stderr_data>>

regVars == <<files, clock, log, response>>

nameVars == <<name_request, name_pc, name_process, name_response>>

vars == <<streamVars, regVars, nameVars>>

genVars == <<pc, session_id, frames, exit, nread>>
procVars == <<process, stdout, eof, returncode, stderr_data>>

\* No stream has started.
StreamInit ==
  /\ agent \in Agents
  /\ request \in [session_id : ReqSessionIds, message : Messages]
  /\ pc = "start"
  /\ session_id = Null
  /\ frames = <<>>
  /\ exit = "running"
  /\ process = "none"
  /\ stdout = <<>>
  /\ eof = FALSE
  /\ nread = 0
  /\ returncode = NoReturnCode
  /\ stderr_data = <<>>

\* ---------------------------------------------------------------------
\* Session registry: load_sessions, save_sessions and the three endpoints
\* (and their Rick twins)
\* ---------------------------------------------------------------------
\* Largest number of registry requests served in one behaviour.
MaxOps == 3

SessionIds == {"S1", "S2"}
Names == {"Name A", "Name B"}
\* SaveSessionRequest.first_message: None, empty or a text.
FirstMessageFields == {Null, "", "hi"}

\* The registry file: absent, not parseable as JSON, or a saved document.
MissingFile == [state |-> "missing", sessions |-> <<>>]
CorruptFile == [state |-> "corrupt", sessions |-> <<>>]
SavedFile(sessions) == [state |-> "ok", sessions |-> sessions]
\* Valid JSON that is not an object, such as [] : json.load returns it.
NotADictFile == [state |-> "notdict", sessions |-> <<>>]
\* The JSON object {} : it has no "sessions" key.
EmptyObjectFile == [state |-> "nokey", sessions |-> <<>>]

\* data.get("sessions", []) raises AttributeError when data is not a dict;
\* load_sessions only catches JSONDecodeError and IOError.
GetSessionsRaises(file) == file.state = "notdict"

\* load_sessions() followed by data.get("sessions", []).
load_sessions(file) == IF file.state = "ok" THEN file.sessions ELSE <<>>

\* save_sessions(data) with data["sessions"] = sessions.
save_sessions(sessions) == SavedFile(sessions)

\* Positions of the entries with the given session id.
Matching(sessions, sid) ==
  {i \in 1..Len(sessions) : sessions[i].session_id = sid}

\* A lookup that never finds the session.
FindNothing(sessions, sid) == 0

\* next((s for s in sessions if s["session_id"] == id), None): 0 for None.
FindExisting(sessions, sid) ==
  LET found == Matching(sessions, sid) IN
  IF found = {} THEN 0 ELSE CHOOSE i \in found : \A j \in found : i <= j

\* request.first_message or ""
OrEmpty(s) == IF Falsy(s) THEN "" ELSE s

NewSession(req, now) ==
  [session_id |-> req.session_id, name |-> req.name,
   first_message |-> OrEmpty(req.first_message),
   created_at |-> now, updated_at |-> now]

\* An update that replaces the entry by a new one.
UpdatedSessionIsNew(existing, req, now) == NewSession(req, now)

\* An update that leaves the name as it was.
UpdatedSessionKeepsName(existing, req, now) ==
  [existing EXCEPT !.updated_at = now]

UpdatedSession(existing, req, now) ==
  [existing EXCEPT !.name = req.name,
                   !.updated_at = now,
                   !.first_message =
                     IF Falsy(req.first_message) THEN @ ELSE req.first_message]

\* A writer that saves its own session over everything it loaded.
UpsertOverwritesAll(sessions, req, now) == <<NewSession(req, now)>>

\* The sessions list save_session writes.
UpsertSessions(sessions, req, now) ==
  LET i == FindExisting(sessions, req.session_id) IN
  IF i # 0
  THEN [sessions EXCEPT ![i] = UpdatedSession(sessions[i], req, now)]
  ELSE Append(sessions, NewSession(req, now))

\* sessions = [s for s in sessions if s["session_id"] != session_id]
RECURSIVE Without(_, _)
Without(sessions, sid) ==
  IF sessions = <<>> THEN <<>>
  ELSE IF Head(sessions).session_id = sid THEN Without(Tail(sessions), sid)
       ELSE <<Head(sessions)>> \o Without(Tail(sessions), sid)

\* The body of a registry response.
Response(status, success, sessions, sid) ==
  [status |-> status, success |-> success, sessions |-> sessions,
   session_id |-> sid]

NoResponse == Response(0, FALSE, <<>>, Null)

\* The answer to a request whose handler raised: 500 Internal Server Error.
ServerError == Response(500, FALSE, <<>>, Null)

\* A delete that saves and reports success whatever it found.
DeleteAlwaysSucceeds(file, sid) ==
  [file |-> save_sessions(Without(load_sessions(file), sid)),
   response |-> Response(200, TRUE, <<>>, sid)]

\* delete_session: the file it leaves and what it answers.
DeleteOutcome(file, sid) ==
  LET sessions == load_sessions(file)
      kept == Without(sessions, sid)
  IN  IF GetSessionsRaises(file)
      THEN [file |-> file, response |-> ServerError]
      ELSE IF Len(kept) = Len(sessions)
      THEN [file |-> file, response |-> Response(404, FALSE, <<>>, sid)]
      ELSE [file |-> save_sessions(kept),
            response |-> Response(200, TRUE, <<>>, sid)]

\* One served request, as the log keeps it.
Served(op, a, sid, name, first_message, status) ==
  [op |-> op, agent |-> a, session_id |-> sid, name |-> name,
   first_message |-> first_message, status |-> status]

\* No registry request has been served; no registry file exists.
RegistryIdle ==
  /\ files = [a \in Agents |-> MissingFile]
  /\ clock = 0
  /\ log = <<>>
  /\ response = NoResponse

\* ---------------------------------------------------------------------
\* name-session: rick_name_session and claude_name_session
\* ---------------------------------------------------------------------
\* request.first_message[:30]
FallbackLen == 30
\* name[:50]
NameLimit == 50

Quote == "\""
Ellipsis == <<".", ".", ".">>

RECURSIVE Rep(_, _)
Rep(c, n) == IF n = 0 THEN <<>> ELSE <<c>> \o Rep(c, n - 1)

\* s[:n]
Take(s, n) == SubSeq(s, 1, IF Len(s) < n THEN Len(s) ELSE n)

\* SessionNameRequest.first_message
FirstMessages ==
  {Rep("a", n) : n \in {0, 3, 30, 31, 40}}
  \cup {Rep("a", 29) \o <<Blank>> \o Rep("a", 10), <<Blank>> \o Rep("a", 40)}

\* What the naming subprocess may print, as json.loads returns it.
NameDoc(kind, result_kind, result) ==
  [kind |-> kind, result_kind |-> result_kind, result |-> result]

NameDocs ==
     ("ok" :> NameDoc("object", "str", <<Blank, Quote, "Trip plan", Quote>>))
  @@ ("long" :> NameDoc("object", "str", Rep("n", 51)))
  @@ ("empty" :> NameDoc("object", "str", <<Quote, Quote>>))
  @@ ("noresult" :> NameDoc("object", "absent", <<>>))
  @@ ("null" :> NameDoc("object", "null", <<>>))
  @@ ("list" :> NameDoc("scalar", "absent", <<>>))

NameOutputs == DOMAIN NameDocs \cup {"garbage"}

name_json_loads(out) ==
  IF out \in DOMAIN NameDocs THEN NameDocs[out]
  ELSE NameDoc("invalid", "absent", <<>>)

RECURSIVE lstrip_quotes(_)
lstrip_quotes(s) ==
  IF s # <<>> /\ Head(s) = Quote THEN lstrip_quotes(Tail(s)) ELSE s

RECURSIVE rstrip_quotes(_)
rstrip_quotes(s) ==
  IF s # <<>> /\ s[Len(s)] = Quote
  THEN rstrip_quotes(SubSeq(s, 1, Len(s) - 1)) ELSE s

\* name.strip('"\'')
strip_quotes(s) == rstrip_quotes(lstrip_quotes(s))

\* result.get('result', '').strip().strip('"\'').strip()[:50]
CleanName(result) == Take(strip(strip_quotes(strip(result))), NameLimit)

\* What a name-session handler returns.
NameResponse(success, name, error) ==
  [success |-> success, name |-> name, error |-> error]

NoNameResponse == NameResponse(FALSE, <<>>, "pending")

\* The fallback of the normal path: truncated first message, with an
\* ellipsis when it was longer.
Fallback(first_message) ==
  strip(Take(first_message, FallbackLen))
  \o (IF Len(first_message) > FallbackLen THEN Ellipsis ELSE <<>>)

\* The fallback of the except asyncio.TimeoutError handler.
TimeoutFallback(first_message) == strip(Take(first_message, FallbackLen))

\* except Exception as e
ExceptionResponse(first_message, e) ==
  NameResponse(FALSE, Take(first_message, FallbackLen), e)

\* The handler after communicate() has returned.
AfterCommunicate(rc, out, first_message) ==
  IF rc = 0
  THEN LET result == name_json_loads(out) IN
       IF result.kind = "invalid"
       THEN ExceptionResponse(first_message, "JSONDecodeError")
       ELSE IF result.kind = "scalar" \/ result.result_kind = "null"
       THEN ExceptionResponse(first_message, "AttributeError")
       ELSE LET name == CleanName(result.result) IN
            IF name # <<>> THEN NameResponse(TRUE, name, "")
            ELSE NameResponse(TRUE, Fallback(first_message), "")
  ELSE NameResponse(TRUE, Fallback(first_message), "")

\* No name-session request has been made.
NamingIdle ==
  /\ name_request = [first_message |-> <<>>]
  /\ name_pc = "idle"
  /\ name_process = "none"
  /\ name_response = NoNameResponse

Init ==
  /\ StreamInit
  /\ RegistryIdle
  /\ NamingIdle

\* ---------------------------------------------------------------------
\* generate()
\* ---------------------------------------------------------------------
\* except Exception as e: one error frame, then the generator returns.
Raise(fs, sid, e) ==
  /\ frames' = frames \o fs \o <<ErrorFrame(<<e>>, sid)>>
  /\ session_id' = sid
  /\ exit' = "exception"
  /\ pc' = "finished"

\* start: session_id = request.session_id, build cmd with "-p"
\* request.message (whatever it is), yield init.
Start ==
  /\ pc = "start"
  /\ session_id' = request.session_id
  /\ frames' = frames \o <<InitFrame(agent)>>
  /\ pc' = "spawn"
  /\ UNCHANGED <<agent, request, exit, nread>>
  /\ UNCHANGED procVars
  /\ UNCHANGED <<regVars, nameVars>>

\* create_subprocess_exec returns a process.
SpawnOk ==
  /\ pc = "spawn"
  /\ process' = "running"
  /\ pc' = "read"
  /\ UNCHANGED <<agent, request, session_id, frames, exit, nread>>
  /\ UNCHANGED <<stdout, eof, returncode, stderr_data>>
  /\ UNCHANGED <<regVars, nameVars>>

\* create_subprocess_exec raises (executable missing, not startable).
SpawnFail ==
  /\ pc = "spawn"
  /\ process' = "failed"
  /\ Raise(<<>>, session_id, "FileNotFoundError")
  /\ UNCHANGED <<agent, request, nread>>
  /\ UNCHANGED <<stdout, eof, returncode, stderr_data>>
  /\ UNCHANGED <<regVars, nameVars>>

\* readline() returns the next line; the loop body runs on it.
ReadLine ==
  /\ pc = "read"
  /\ nread < Len(stdout)
  /\ nread' = nread + 1
  /\ LET r == HandleLine(stdout[nread + 1], session_id) IN
       IF r.raised = "none"
       THEN /\ frames' = frames \o r.frames
            /\ session_id' = r.session_id
            /\ UNCHANGED <<pc, exit>>
       ELSE Raise(r.frames, r.session_id, r.raised)
  /\ UNCHANGED <<agent, request>>
  /\ UNCHANGED procVars
  /\ UNCHANGED <<regVars, nameVars>>

\* readline() returns b'': leave the loop and wait for the process.
ReadEof ==
  /\ pc = "read"
  /\ nread = Len(stdout)
  /\ eof
  /\ pc' = "wait"
  /\ UNCHANGED <<agent, request, session_id, frames, exit, nread>>
  /\ UNCHANGED procVars
  /\ UNCHANGED <<regVars, nameVars>>

\* A wait that returns while the process is still running.
WaitReturnsEarly ==
  /\ pc = "wait"
  /\ pc' = "stderr"
  /\ UNCHANGED <<agent, request, session_id, frames, exit, nread>>
  /\ UNCHANGED procVars
  /\ UNCHANGED <<regVars, nameVars>>

\* process.wait() returns.
WaitReturns ==
  /\ pc = "wait"
  /\ process = "exited"
  /\ pc' = "stderr"
  /\ UNCHANGED <<agent, request, session_id, frames, exit, nread>>
  /\ UNCHANGED procVars
  /\ UNCHANGED <<regVars, nameVars>>

\* The frames after process.wait(): the stderr error frame, then done.
FinalFrames(rc, err, sid) ==
  (IF rc # 0 /\ err # <<>> THEN <<ErrorFrame(strip(err), sid)>> ELSE <<>>)
  \o <<DoneFrame(sid)>>

\* stderr.read() returns; the error frame if any, then done.
Finish ==
  /\ pc = "stderr"
  /\ frames' = frames \o FinalFrames(returncode, stderr_data, session_id)
  /\ exit' = "done"
  /\ pc' = "finished"
  /\ UNCHANGED <<agent, request, session_id, nread>>
  /\ UNCHANGED procVars
  /\ UNCHANGED <<regVars, nameVars>>

\* The places where generate() awaits, inside the try block.
SuspensionPoints == {"spawn", "read", "wait", "stderr"}

\* A handler that falls through to the final done frame.
CancelFramesThenDone(sid) == <<CancelledFrame(sid), DoneFrame(sid)>>

\* The frames of the except asyncio.CancelledError handler.
CancelFrames(sid) == <<CancelledFrame(sid)>>

\* CancelledError is raised at the await generate() is suspended on.
Cancel ==
  /\ pc \in SuspensionPoints
  /\ frames' = frames \o CancelFrames(session_id)
  /\ exit' = "cancelled"
  /\ pc' = "finished"
  /\ UNCHANGED <<agent, request, session_id, nread>>
  /\ UNCHANGED procVars
  /\ UNCHANGED <<regVars, nameVars>>

\* ---------------------------------------------------------------------
\* The agent subprocess
\* ---------------------------------------------------------------------
ProcWrite(line) ==
  /\ process = "running"
  /\ ~eof
  /\ Len(stdout) < MaxLines
  /\ stdout' = Append(stdout, line)
  /\ UNCHANGED <<agent, request, process, eof, returncode, stderr_data>>
  /\ UNCHANGED genVars
  /\ UNCHANGED <<regVars, nameVars>>

ProcCloseStdout ==
  /\ process = "running"
  /\ ~eof
  /\ eof' = TRUE
  /\ UNCHANGED <<agent, request, process, stdout, returncode, stderr_data>>
  /\ UNCHANGED genVars
  /\ UNCHANGED <<regVars, nameVars>>

ProcExit(rc, err) ==
  /\ process = "running"
  /\ process' = "exited"
  /\ eof' = TRUE
  /\ returncode' = rc
  /\ stderr_data' = err
  /\ UNCHANGED <<agent, request, stdout>>
  /\ UNCHANGED genVars
  /\ UNCHANGED <<regVars, nameVars>>

ExitCodes == {0, 1}
StderrTexts == {<<>>, <<"boom", Blank>>}

GenNext ==
  \/ Start
  \/ SpawnOk
  \/ SpawnFail
  \/ ReadLine
  \/ ReadEof
  \/ WaitReturns
  \/ Finish

ProcNext ==
  \/ \E line \in Lines : ProcWrite(line)
  \/ ProcCloseStdout
  \/ \E rc \in ExitCodes, err \in StderrTexts : ProcExit(rc, err)

Next ==
  \/ GenNext
  \/ Cancel
  \/ ProcNext

Spec == Init /\ [][Next]_vars

\* The code resumes generate() whenever the await it is suspended on has
\* completed; nothing obliges the subprocess to write, close or exit, nor
\* the client to disconnect.
FairSpec == Spec /\ WF_vars(GenNext)

\* ---------------------------------------------------------------------
\* The registry endpoints.  Each is a coroutine without an await: the
\* event loop runs it from its load to its save before any other request.
\* ---------------------------------------------------------------------
\* list_sessions / list_rick_sessions
ListSessions(a) ==
  /\ Len(log) < MaxOps
  /\ response' = IF GetSessionsRaises(files[a]) THEN ServerError
                  ELSE Response(200, TRUE, load_sessions(files[a]), Null)
  /\ log' = Append(log, Served("list", a, Null, "", Null, response'.status))
  /\ clock' = clock + 1
  /\ UNCHANGED <<files, streamVars, nameVars>>

\* save_session / save_rick_session
SaveSession(a, req) ==
  /\ Len(log) < MaxOps
  /\ clock' = clock + 1
  /\ IF GetSessionsRaises(files[a])
     THEN /\ files' = files
          /\ response' = ServerError
     ELSE /\ files' = [files EXCEPT ![a] =
               save_sessions(UpsertSessions(load_sessions(files[a]), req,
                                            clock'))]
          /\ response' = Response(200, TRUE, <<>>, req.session_id)
  /\ log' = Append(log, Served("upsert", a, req.session_id, req.name,
                               req.first_message, response'.status))
  /\ UNCHANGED <<streamVars, nameVars>>

\* delete_session / delete_rick_session
DeleteSession(a, sid) ==
  /\ Len(log) < MaxOps
  /\ clock' = clock + 1
  /\ LET r == DeleteOutcome(files[a], sid) IN
       /\ files' = [files EXCEPT ![a] = r.file]
       /\ response' = r.response
       /\ log' = Append(log, Served("delete", a, sid, "", Null,
                                    r.response.status))
  /\ UNCHANGED <<streamVars, nameVars>>

SaveSessionRequests ==
  [session_id : SessionIds, name : Names, first_message : FirstMessageFields]

RegistryNext ==
  \/ \E a \in Agents : ListSessions(a)
  \/ \E a \in Agents, req \in SaveSessionRequests : SaveSession(a, req)
  \/ \E a \in Agents, sid \in SessionIds : DeleteSession(a, sid)

\* A registry file left by an earlier upsert.
SeededFile ==
  SavedFile(<<[session_id |-> "S1", name |-> "Name A", first_message |-> "hi",
               created_at |-> 0, updated_at |-> 0]>>)

\* The registry files before the first request: absent, left unparseable
\* by an interrupted write, or written by earlier requests.
RegistryInit ==
  /\ StreamInit
  /\ agent = "claude"
  /\ request = [session_id |-> Null, message |-> "hello"]
  /\ NamingIdle
  /\ files \in [Agents -> {MissingFile, CorruptFile, SeededFile}]
  /\ files["rick"] # SeededFile
  /\ clock = 0
  /\ log = <<>>
  /\ response = NoResponse

RegistrySpec == RegistryInit /\ [][RegistryNext]_vars

\* The registry files before the first request, when the file of the
\* Claude registry is absent or holds JSON of another shape.
MalformedInit ==
  /\ StreamInit
  /\ agent = "claude"
  /\ request = [session_id |-> Null, message |-> "hello"]
  /\ NamingIdle
  /\ files \in [Agents -> {MissingFile, NotADictFile, EmptyObjectFile}]
  /\ files["rick"] = MissingFile
  /\ clock = 0
  /\ log = <<>>
  /\ response = NoResponse

MalformedSpec == MalformedInit /\ [][RegistryNext]_vars

\* ---------------------------------------------------------------------
\* The name-session handlers and the naming subprocess
\* ---------------------------------------------------------------------
\* create_subprocess_exec returns.
NameSpawnOk ==
  /\ name_pc = "spawn"
  /\ name_process' = "running"
  /\ name_pc' = "communicate"
  /\ UNCHANGED <<name_request, name_response, streamVars, regVars>>

\* create_subprocess_exec raises.
NameSpawnFail ==
  /\ name_pc = "spawn"
  /\ name_process' = "failed"
  /\ name_response' =
       ExceptionResponse(name_request.first_message, "FileNotFoundError")
  /\ name_pc' = "returned"
  /\ UNCHANGED <<name_request, streamVars, regVars>>

\* The subprocess exits and communicate() returns within the timeout.
NameCommunicate(rc, out) ==
  /\ name_pc = "communicate"
  /\ name_process = "running"
  /\ name_process' = "exited"
  /\ name_response' = AfterCommunicate(rc, out, name_request.first_message)
  /\ name_pc' = "returned"
  /\ UNCHANGED <<name_request, streamVars, regVars>>

\* wait_for raises TimeoutError: communicate() is cancelled, the handler
\* answers from its except asyncio.TimeoutError branch.
NameTimeout ==
  /\ name_pc = "communicate"
  /\ name_process = "running"
  /\ name_response' =
       NameResponse(TRUE, TimeoutFallback(name_request.first_message), "")
  /\ name_pc' = "returned"
  /\ UNCHANGED <<name_request, name_process, streamVars, regVars>>

\* The naming subprocess ends by itself after the handler has returned.
NameProcessExits ==
  /\ name_pc = "returned"
  /\ name_process = "running"
  /\ name_process' = "exited"
  /\ UNCHANGED <<name_request, name_pc, name_response, streamVars, regVars>>

NameNext ==
  \/ NameSpawnOk
  \/ NameSpawnFail
  \/ \E rc \in ExitCodes, out \in NameOutputs : NameCommunicate(rc, out)
  \/ NameTimeout
  \/ NameProcessExits

NameInit ==
  /\ StreamInit
  /\ request = [session_id |-> Null, message |-> "hello"]
  /\ RegistryIdle
  /\ name_request \in [first_message : FirstMessages]
  /\ name_pc = "spawn"
  /\ name_process = "none"
  /\ name_response = NoNameResponse

NameSpec == NameInit /\ [][NameNext]_vars

\* ---------------------------------------------------------------------
\* Properties
\* ---------------------------------------------------------------------
Last(s) == s[Len(s)]

Count(fs, types) == Cardinality({i \in 1..Len(fs) : fs[i].type \in types})

Types(fs) == [i \in 1..Len(fs) |-> fs[i].type]

Terminal == {"done", "cancelled"}

\* The session id a stdout line carries, NoKey if it carries none.
LineSessionId(line) ==
  IF ValidUtf8(line) THEN json_loads(strip(line)).session_id ELSE NoKey

\* The session id of the first of the first k lines that carries one.
ObservedSid(out, k) ==
  LET carriers == {i \in 1..k : LineSessionId(out[i]) # NoKey} IN
  IF carriers = {} THEN NoKey
  ELSE LineSessionId(out[CHOOSE i \in carriers : \A j \in carriers : i <= j])

\* The line decodes as text and json.loads rejects its trimmed text.
NotJson(line) == ValidUtf8(line) /\ json_loads(strip(line)).kind = "invalid"

\* C1: when a stream has ended, its frames hold exactly one init, which is
\* the first frame, and exactly one done or cancelled, which is the last.
C1_OneInitFirstOneTerminalLast ==
  pc = "finished" =>
    /\ frames # <<>>
    /\ frames[1].type = "init"
    /\ Count(frames, {"init"}) = 1
    /\ Last(frames).type \in Terminal
    /\ Count(frames, Terminal) = 1

\* C2: when spawning the subprocess failed, the frames of the ended stream
\* are init, one error, done.
C2_SpawnFailureEndsWithDone ==
  (pc = "finished" /\ process = "failed") =>
    Types(frames) = <<"init", "error", "done">>

\* C3: a stream whose subprocess was spawned, whose lines are all text,
\* and that was not cancelled ends with done after every line written to
\* stdout has been processed: no line, JSON or not, object or not, makes
\* generate() leave the read loop through an exception.
C3_NoLineAbortsTheStream ==
  (/\ pc = "finished"
   /\ process # "failed"
   /\ exit # "cancelled"
   /\ \A i \in 1..nread : ValidUtf8(stdout[i])) =>
    /\ exit = "done"
    /\ nread = Len(stdout)
    /\ Last(frames).type = "done"

\* C4: every frame emitted in a step after which a session id has been
\* observed on stdout carries the observed session id.
C4_FramesCarryObservedSessionId ==
  [][\A i \in (Len(frames) + 1)..Len(frames') :
       ObservedSid(stdout', nread') # NoKey =>
         frames'[i].session_id = ObservedSid(stdout', nread')]_vars

\* C5: when the request resumes session H and the first id observed on
\* stdout is S # H, the running session id is S, and so is the id of done.
C5_ReportedSessionIdIsAuthoritative ==
  LET S == ObservedSid(stdout, nread) IN
  (~Falsy(request.session_id) /\ S # NoKey /\ S # request.session_id) =>
    /\ session_id = S
    /\ (exit = "done" => Last(frames).session_id = S)

\* C6: once a stream has ended by cancellation, the subprocess is not
\* running.
C6_CancelledStreamLeavesNoProcess ==
  exit = "cancelled" => process # "running"

\* C7: a stream cancelled at one of its awaits ends with a cancelled frame
\* that carries the running session id; it is the only cancelled frame and
\* the stream has no done frame.
C7_CancelledIsLastAndNoDone ==
  exit = "cancelled" =>
    /\ pc = "finished"
    /\ Last(frames).type = "cancelled"
    /\ Last(frames).session_id = session_id
    /\ Count(frames, {"cancelled"}) = 1
    /\ Count(frames, {"done"}) = 0

\* C7 witness: a stream cancelled after a line gave it the session id S1.
C7_Witness ==
  /\ exit = "cancelled"
  /\ nread >= 1
  /\ session_id = "S1"
  /\ Len(frames) >= 3

\* C8: a stream that waits for the subprocess (for a line, or for its exit)
\* eventually ends, whatever the subprocess does.
C8_StreamNeverWaitsIndefinitely ==
  (pc \in {"read", "wait"}) ~> (pc = "finished")

\* C9: a stream holds at most one result frame.
C9_AtMostOneResultFrame == Count(frames, {"result"}) <= 1

\* C10 as stated: the literal text of every line read on which json.loads
\* fails is the text of some message frame.
C10_LiteralLineInMessageFrame ==
  \A i \in 1..nread :
    (NotJson(stdout[i]) /\ strip(stdout[i]) # <<>>) =>
      \E j \in 1..Len(frames) :
        frames[j].type = "message" /\ frames[j].text = stdout[i]

\* C10 amended: the whitespace-trimmed text of every line read on which
\* json.loads fails is the text of some message frame.
C10_TrimmedLineInMessageFrame ==
  \A i \in 1..nread :
    (NotJson(stdout[i]) /\ strip(stdout[i]) # <<>>) =>
      \E j \in 1..Len(frames) :
        frames[j].type = "message" /\ frames[j].text = strip(stdout[i])

\* C10 witness: a non-JSON line with leading whitespace has been processed.
C10_Witness ==
  \E i \in 1..nread :
    /\ stdout[i] = <<Blank, "oops">>
    /\ \E j \in 1..Len(frames) : frames[j].text = <<"oops">>

\* The outward vocabulary of the endpoint's documentation and of the spec.
Vocabulary ==
  {"init", "message", "tool_use", "system", "result", "error", "cancelled",
   "done"}

\* C11: when a stream that was not cancelled has ended and its subprocess
\* has written text lines and exited with a non-zero status and stderr
\* content, the last two frames are an error frame carrying the stderr
\* text and done.
C11_StderrErrorThenDone ==
  (/\ pc = "finished"
   /\ exit # "cancelled"
   /\ process = "exited"
   /\ returncode # 0
   /\ stderr_data # <<>>
   /\ \A i \in 1..nread : ValidUtf8(stdout[i])) =>
    /\ Len(frames) >= 2
    /\ frames[Len(frames) - 1].type = "error"
    /\ frames[Len(frames) - 1].text = strip(stderr_data)
    /\ Last(frames).type = "done"

\* C12: a stream ends with done only if the subprocess exited with status
\* 0 or a result or error frame was emitted before done.
C12_DoneOnlyAfterErrorSurfaced ==
  exit = "done" =>
    \/ returncode = 0
    \/ Count(frames, {"result", "error"}) >= 1

\* C13: every frame has a type field and a session_id field.
C13_EveryFrameHasTypeAndSessionId ==
  \A i \in 1..Len(frames) :
    frames[i].type # NoKey /\ frames[i].session_id # NoKey

\* C14: the type of every frame belongs to the outward vocabulary.
C14_FrameTypesInVocabulary ==
  \A i \in 1..Len(frames) : frames[i].type \in Vocabulary

\* The log ends with upsert(id, "Name A"), upsert(id, "Name B"), list() on
\* the registry of agent a.
EndsWithRenameThenList(a, sid) ==
  /\ Len(log) >= 3
  /\ LET n == Len(log) IN
       /\ log[n - 2].op = "upsert" /\ log[n - 2].agent = a
       /\ log[n - 2].session_id = sid /\ log[n - 2].name = "Name A"
       /\ log[n - 1].op = "upsert" /\ log[n - 1].agent = a
       /\ log[n - 1].session_id = sid /\ log[n - 1].name = "Name B"
       /\ log[n].op = "list" /\ log[n].agent = a

\* C15: after upsert(id, "Name A"), upsert(id, "Name B"), list(), the list
\* holds exactly one entry with that id, and its name is "Name B".
C15_UpsertUpdatesNotDuplicates ==
  \A a \in Agents, sid \in SessionIds :
    EndsWithRenameThenList(a, sid) =>
      /\ Cardinality(Matching(response.sessions, sid)) = 1
      /\ \A i \in Matching(response.sessions, sid) :
           response.sessions[i].name = "Name B"

\* C15 witness: the rename was served on a registry that already held the
\* id, and the list shows it.
C15_Witness ==
  /\ EndsWithRenameThenList("claude", "S1")
  /\ Len(response.sessions) = 1
  /\ response.sessions[1].created_at = 0
  /\ response.sessions[1].name = "Name B"

\* C16: no two entries of a registry have the same session_id.
C16_SessionIdsUnique ==
  \A a \in Agents, sid \in SessionIds :
    Cardinality(Matching(load_sessions(files[a]), sid)) <= 1

\* C16 witness: starting from a missing file, a registry holds two sessions
\* after an id was upserted twice.
C16_Witness ==
  /\ Len(log) = 3
  /\ \A k \in 1..3 : log[k].op = "upsert" /\ log[k].agent = "rick"
  /\ log[1].session_id = log[3].session_id
  /\ Len(load_sessions(files["rick"])) = 2

\* The registry of agent a shows the effect of the served writer w.
Reflects(a, w) ==
  LET found == Matching(load_sessions(files[a]), w.session_id) IN
  IF w.op = "upsert"
  THEN \E i \in found : load_sessions(files[a])[i].name = w.name
  ELSE found = {}

\* The last two requests served are writers of the same registry, on two
\* different session ids, at least one of them an upsert.
LastTwoAreWriters ==
  /\ Len(log) >= 2
  /\ LET n == Len(log) IN
       /\ {log[n - 1].op, log[n].op} \subseteq {"upsert", "delete"}
       /\ "upsert" \in {log[n - 1].op, log[n].op}
       /\ log[n - 1].agent = log[n].agent
       /\ log[n - 1].session_id # log[n].session_id

\* C17: when two writers of one registry file, on different session ids,
\* have been served, the file shows the effect of both.
C17_NoLostUpdate ==
  LastTwoAreWriters =>
    /\ Reflects(log[Len(log)].agent, log[Len(log) - 1])
    /\ Reflects(log[Len(log)].agent, log[Len(log)])

\* C17 witness: two upserts of different ids, both in the file.
C17_Witness ==
  /\ LastTwoAreWriters
  /\ log[Len(log) - 1].op = "upsert"
  /\ log[Len(log)].op = "upsert"
  /\ Len(load_sessions(files[log[Len(log)].agent])) >= 2

\* C18: a delete of a session id that the registry does not hold answers
\* 404, reports no success and leaves the registry files as they were.
C18_DeleteAbsentIsNotFound ==
  [][(/\ Len(log') = Len(log) + 1
      /\ Last(log').op = "delete"
      /\ Matching(load_sessions(files[Last(log').agent]),
                  Last(log').session_id) = {}) =>
       (/\ response'.status = 404
        /\ ~response'.success
        /\ Last(log').status = 404
        /\ files' = files)]_vars

\* C18 witness: a delete answered 404 on a registry that holds another
\* session.
C18_Witness ==
  /\ Len(log) >= 1
  /\ Last(log).op = "delete"
  /\ response.status = 404
  /\ Len(load_sessions(files[Last(log).agent])) >= 1

\* C19: when a stream of a request without a session id has completed, its
\* subprocess has exited with status 0 and reported a session id, the
\* agent's registry holds an entry with that id.
C19_ReportedSessionIsRegistered ==
  (/\ exit = "done"
   /\ returncode = 0
   /\ Falsy(request.session_id)
   /\ ObservedSid(stdout, nread) # NoKey) =>
    Matching(load_sessions(files[agent]), ObservedSid(stdout, nread)) # {}

\* C20: when the naming invocation has timed out and first_message is
\* longer than 30 characters, the answer is a success whose name is the
\* first 30 characters followed by "...".
C20_TimeoutFallbackHasEllipsis ==
  (/\ name_pc = "returned"
   /\ name_process = "running"
   /\ Len(name_request.first_message) > FallbackLen) =>
    /\ name_response.success
    /\ name_response.name =
         Take(name_request.first_message, FallbackLen) \o Ellipsis

\* The outcomes of the naming invocation after which name-session has no
\* produced name: non-zero exit, output that is not JSON, empty name.
NamingFailed(rc, out) ==
  LET result == name_json_loads(out) IN
  \/ rc # 0
  \/ result.kind = "invalid"
  \/ /\ result.kind = "object"
     /\ result.result_kind \in {"str", "absent"}
     /\ CleanName(result.result) = <<>>

\* C21: every step in which name-session answers after a spawn failure, a
\* timeout, a non-zero exit, unparseable output or an empty produced name
\* answers success = true with the first 30 characters of first_message,
\* followed by "..." exactly when first_message is longer than 30.
C21_NamingNeverFails ==
  [][(\/ NameSpawnFail
      \/ NameTimeout
      \/ \E rc \in ExitCodes, out \in NameOutputs :
           NamingFailed(rc, out) /\ NameCommunicate(rc, out)) =>
     LET first_message == name_request.first_message IN
     /\ name_response'.success
     /\ name_response'.name =
          Take(first_message, FallbackLen)
          \o (IF Len(first_message) > FallbackLen THEN Ellipsis ELSE <<>>)]_vars

\* C22: no subprocess is ever spawned for a request whose message is empty.
C22_EmptyMessageSpawnsNothing ==
  request.message = "" => process = "none"

\* The end-to-end scenario: message "hello", no session id; the subprocess
\* writes one assistant line with the single text block "hello-reply" and
\* session id S1, then one result line of the same session, and exits 0.
HelloScenario ==
  /\ request = [session_id |-> Null, message |-> "hello"]
  /\ Len(stdout) = 2
  /\ LET first == json_loads(strip(stdout[1]))
         second == json_loads(strip(stdout[2]))
     IN  /\ first.kind = "object" /\ first.type = "assistant"
         /\ first.shape = "ok" /\ first.session_id = "S1"
         /\ Len(first.content) = 1
         /\ first.content[1].type = "text"
         /\ first.content[1].text = <<"hello-reply">>
         /\ second.kind = "object" /\ second.type = "result"
         /\ second.session_id \in {NoKey, "S1"}
  /\ returncode = 0

\* C23: when the stream of the end-to-end scenario has ended without being
\* cancelled, its frames are exactly init, message("hello-reply"),
\* result(session_id = S1), done(session_id = S1), in this order.
C23_HelloEndToEnd ==
  (HelloScenario /\ pc = "finished" /\ exit # "cancelled") =>
    /\ Types(frames) = <<"init", "message", "result", "done">>
    /\ frames[2].text = <<"hello-reply">>
    /\ frames[3].session_id = "S1"
    /\ frames[4].session_id = "S1"

\* C23 witness: the scenario has run to its done frame.
C23_Witness ==
  /\ HelloScenario
  /\ exit = "done"
  /\ Len(frames) = 4
  /\ frames[4] = DoneFrame("S1")

\* C24: every request served for an agent whose registry file is missing or
\* does not hold a saved document is answered as on an empty registry:
\* list answers 200 with no sessions, upsert answers 200 and leaves exactly
\* the upserted session, delete answers 404 and leaves the file as it was.
C24_MalformedFileIsEmptyRegistry ==
  [][\A a \in Agents :
       (/\ files[a].state # "ok"
        /\ Len(log') = Len(log) + 1
        /\ Last(log').agent = a) =>
         LET served == Last(log') IN
         /\ served.op = "list" =>
              /\ response'.status = 200
              /\ response'.sessions = <<>>
         /\ served.op = "upsert" =>
              /\ response'.status = 200
              /\ files'[a].state = "ok"
              /\ Len(files'[a].sessions) = 1
              /\ files'[a].sessions[1].session_id = served.session_id
         /\ served.op = "delete" =>
              /\ response'.status = 404
              /\ files'[a] = files[a]]_vars

\* The frames of the read loop on the given lines, up to the first line
\* that raises.
RECURSIVE ReadLoop(_, _, _)
ReadLoop(lines, sid, acc) ==
  IF lines = <<>> THEN Outcome(acc, sid, "none")
  ELSE LET r == HandleLine(Head(lines), sid) IN
       IF r.raised # "none"
       THEN Outcome(acc \o r.frames \o <<ErrorFrame(<<r.raised>>, r.session_id)>>,
                    r.session_id, r.raised)
       ELSE ReadLoop(Tail(lines), r.session_id, acc \o r.frames)

\* What the chat stream of agent a yields for the request, the subprocess
\* behaviour and the cancellation point of the current state.
Replay(a) ==
  IF pc = "start" THEN <<>>
  ELSE <<InitFrame(a)>> \o
       (IF process = "failed"
        THEN <<ErrorFrame(<<"FileNotFoundError">>, request.session_id)>>
        ELSE LET r == ReadLoop(SubSeq(stdout, 1, nread), request.session_id,
                               <<>>)
             IN  r.frames \o
                 (IF exit = "done"
                  THEN FinalFrames(returncode, stderr_data, r.session_id)
                  ELSE IF exit = "cancelled" THEN CancelFrames(r.session_id)
                  ELSE <<>>))

C26_InitBeforeSpawnDoneAfterExit ==
  /\ process # "none" => (frames # <<>> /\ frames[1].type = "init")
  /\ nread > 0 => (frames # <<>> /\ frames[1].type = "init")
  /\ \A i \in 1..Len(frames) :
       frames[i].type = "done" =>
         /\ eof
         /\ nread = Len(stdout)
         /\ process = "exited"
         /\ i = Len(frames)
         /\ pc = "finished"

\* C26 witness: a stream that consumed lines and yielded frames for them
\* has ended with done.
C26_Witness ==
  /\ exit = "done"
  /\ nread = 2
  /\ Len(frames) >= 4
  /\ Last(frames).type = "done"

\* C27: once name-session has returned its answer, the naming subprocess
\* is not running any more, also when the answer is the one of a timeout.
C27_NamingProcessNotLeaked ==
  name_pc = "returned" => name_process \in {"failed", "exited"}

\* C28: a step that serves an upsert for a session id the registry of the
\* agent already holds keeps the number and the order of the entries,
\* leaves every other entry as it was, and in the entry of that id keeps
\* session_id and created_at, sets name and updated_at, and sets
\* first_message only when the request gives a non-empty one.
C28_UpsertChangesOnlyItsEntry ==
  [][\A a \in Agents :
       (/\ Len(log') = Len(log) + 1
        /\ Last(log').op = "upsert"
        /\ Last(log').agent = a
        /\ Matching(load_sessions(files[a]), Last(log').session_id) # {}) =>
         LET served == Last(log')
             old == load_sessions(files[a])
             new == load_sessions(files'[a])
         IN  /\ Len(new) = Len(old)
             /\ \A j \in 1..Len(old) :
                  IF old[j].session_id # served.session_id
                  THEN new[j] = old[j]
                  ELSE /\ new[j].session_id = old[j].session_id
                       /\ new[j].created_at = old[j].created_at
                       /\ new[j].name = served.name
                       /\ new[j].updated_at = clock'
                       /\ new[j].first_message =
                            IF served.first_message \in {Null, ""}
                            THEN old[j].first_message
                            ELSE served.first_message]_vars

\* C28 witness: a registry of two sessions after an upsert that renamed
\* the older one and gave an empty first_message: the entry keeps its
\* creation time and its first message.
C28_Witness ==
  /\ Len(log) >= 2
  /\ Last(log).op = "upsert"
  /\ Last(log).first_message = ""
  /\ LET sessions == load_sessions(files[Last(log).agent]) IN
       /\ Len(sessions) = 2
       /\ sessions[1].session_id = Last(log).session_id
       /\ sessions[1].name = Last(log).name
       /\ sessions[1].first_message = "hi"
       /\ sessions[1].created_at < sessions[1].updated_at
       /\ sessions[1].updated_at = clock

\* The content blocks of an assistant event that yield a frame.
FrameBlocks(content) ==
  SelectSeq(content, LAMBDA block : block.type \in {"text", "tool_use"})

\* The frame of a content block, whatever session id it carries.
IsFrameOfBlock(frame, block) ==
  IF block.type = "text"
  THEN frame.type = "message" /\ frame.text = block.text
  ELSE frame.type = "tool_use" /\ frame.tool = block.name

\* C29: a step that consumes a stdout line yields no frame exactly when the
\* line is empty after trimming, or is a system event with an empty
\* message, or is an assistant event without text and tool_use blocks; an
\* assistant event yields one frame per text/tool_use block, in block
\* order.
C29_FramesOfALine ==
  [][nread' = nread + 1 =>
       LET line_text == strip(stdout[nread'])
           event == json_loads(line_text)
           yielded == SubSeq(frames', Len(frames) + 1, Len(frames'))
           blocks == FrameBlocks(event.content)
           silent == \/ line_text = <<>>
                     \/ event.type = "system" /\ event.text = <<>>
                     \/ event.type = "assistant" /\ blocks = <<>>
       IN  /\ yielded = <<>> <=> silent
           /\ event.type = "assistant" =>
                /\ Len(yielded) = Len(blocks)
                /\ \A i \in 1..Len(blocks) :
                     IsFrameOfBlock(yielded[i], blocks[i])]_vars

====
